---- MODULE Spec2Model ----
(***************************************************************************)
(* bevy-world-space: world-space units, pixel/world conversion, window     *)
(* resize tracking and mouse click mapping.                                *)
(*                                                                         *)
(* f32 values are modelled as extended rationals <<n, d>> in lowest terms  *)
(* with d >= 0.  d = 0 encodes the non-finite values an IEEE division      *)
(* produces: <<1,0>> is +inf, <<-1,0>> is -inf and <<0,0>> is NaN.         *)
(* Arithmetic is exact: rounding, overflow and signed zero are not         *)
(* modelled.                                                               *)
(***************************************************************************)
EXTENDS Integers, Sequences, FiniteSets, TLC

VARIABLES
  \* WorldInitPlugin fields (configuration, fixed through a run)
  screen_width, screen_height,
  \* resources
  win_info, aspect_ratio,
  \* host inputs of the current tick
  resize_events, resize_read, cursor, buttons,
  \* Events<MouseEvent>: this tick's buffer and the previous tick's
  mouse_events, prev_mouse_events,
  \* the position handle_input computed this tick (NoPos when it computed none)
  pos,
  \* position in the frame: "host", "First", "PreUpdate", "Update"
  pc,
  \* whether debug assertions are compiled in
  debug_assertions,
  \* direct calls of the conversion API: inputs, call chain, result
  c_win, c_ar, c_v0, c_ops, c_out, c_outcome

tickVars == <<screen_width, screen_height, win_info, aspect_ratio, resize_events,
              resize_read, cursor, buttons, mouse_events, prev_mouse_events, pos, pc>>
convVars == <<debug_assertions, c_win, c_ar, c_v0, c_ops, c_out, c_outcome>>
vars == <<tickVars, convVars>>

----------------------------------------------------------------------------
(* Bounds *)

\* direct calls: window sides range over -1..MaxDim
MaxDim == 2
\* direct calls: aspect ratios n/d with n in -1..MaxRatio, d in 1..MaxRatio
MaxRatio == 2
\* direct calls: operand components range over -MaxCoord..MaxCoord
MaxCoord == 2
\* at most this many WindowResized events arrive in one tick
MaxResizes == 2

----------------------------------------------------------------------------
(* f32 arithmetic *)

Abs(n) == IF n < 0 THEN -n ELSE n
Sgn(n) == IF n < 0 THEN -1 ELSE IF n > 0 THEN 1 ELSE 0

RECURSIVE GCD(_, _)
GCD(a, b) == IF b = 0 THEN a ELSE GCD(b, a % b)

Norm(n, d) ==
  IF d = 0 THEN <<Sgn(n), 0>>
  ELSE LET g == GCD(Abs(n), Abs(d))
           s == IF d < 0 THEN -1 ELSE 1
       IN <<(s * n) \div g, (s * d) \div g>>

Rat(n) == <<n, 1>>
Zero == Rat(0)
One == Rat(1)

IsNaN(x) == x = <<0, 0>>

Mul(x, y) == Norm(x[1] * y[1], x[2] * y[2])
Inv(x) == IF x[1] < 0 THEN <<-x[2], -x[1]>> ELSE <<x[2], x[1]>>
Div(x, y) == Mul(x, Inv(y))

Lt(x, y) ==
  /\ ~IsNaN(x)
  /\ ~IsNaN(y)
  /\ IF x[2] = 0 /\ y[2] = 0 THEN x[1] < y[1] ELSE x[1] * y[2] < y[1] * x[2]
Le(x, y) == ~IsNaN(x) /\ ~IsNaN(y) /\ ~Lt(y, x)

\* f32::min / f32::max: a NaN operand is ignored
Min(x, y) == IF IsNaN(x) THEN y ELSE IF IsNaN(y) THEN x ELSE IF Lt(y, x) THEN y ELSE x
Max(x, y) == IF IsNaN(x) THEN y ELSE IF IsNaN(y) THEN x ELSE IF Lt(x, y) THEN y ELSE x

Vec2(x, y) == [x |-> x, y |-> y]

----------------------------------------------------------------------------
(* win_info.rs, world_unit.rs: resources and the coordinate converter *)

WinInfo_new(width, height) == [width |-> width, height |-> height]

AspectRatio_new(r) == r

UNITS_PER_SCREEN_MAX == 50

units_per_screen_width_no_clamp(ar) == Div(Rat(UNITS_PER_SCREEN_MAX), ar)
units_per_screen_width(ar) == Div(Rat(UNITS_PER_SCREEN_MAX), Max(ar, One))

units_per_screen_height_no_clamp(ar) == Rat(UNITS_PER_SCREEN_MAX)
units_per_screen_height(ar) == Mul(Min(ar, One), Rat(UNITS_PER_SCREEN_MAX))

WorldUnit_screen_width(ar) == units_per_screen_width(ar)
WorldUnit_screen_height(ar) == units_per_screen_height(ar)

\* the debug_assert! of normalized_x / normalized_y
normalized_in_range(n) == Le(Rat(-1), n) /\ Le(n, One)

normalized_x(x, ar) == Div(Mul(x, units_per_screen_width(ar)), Rat(2))
normalized_y(y, ar) == Div(Mul(y, units_per_screen_height(ar)), Rat(2))

scale(wi, ar) ==
  LET window_width == Min(wi.width, Div(wi.height, ar))
      window_height == Mul(window_width, ar)
  IN Vec2(Div(window_width, units_per_screen_width(ar)),
          Div(window_height, units_per_screen_height(ar)))

to_x(u, wi, ar) == Mul(u, scale(wi, ar).x)
to_y(u, wi, ar) == Mul(u, scale(wi, ar).y)

from_x_multiplies(x, wi, ar) == Mul(x, scale(wi, ar).x)
from_x(x, wi, ar) == Div(x, scale(wi, ar).x)
from_y(y, wi, ar) == Div(y, scale(wi, ar).y)

from_screen_pos(p, wi, ar) == Vec2(from_x(p.x, wi, ar), from_y(p.y, wi, ar))

to_absolute(v, wi, ar) ==
  LET s == scale(wi, ar) IN Vec2(Mul(v.x, s.x), Mul(v.y, s.y))

\* WorldVec2::from_window_screen_pos, which handle_input calls: the pixel
\* position converted to world units by the converter
from_window_screen_pos(p, wi, ar) == from_screen_pos(p, wi, ar)

----------------------------------------------------------------------------
(* Direct calls of the conversion API by the host.  The operand of a call  *)
(* is the host's value c_v0 or, for the second call of a round trip, the   *)
(* result of the first: a pixel value feeds a from_* call, a world value a *)
(* to_* call.                                                              *)

ToPixelOps == {"to_x", "to_y", "to_absolute"}
ToWorldOps == {"from_x", "from_y", "from_screen_pos"}

Dims == {Rat(n) : n \in -1..MaxDim}
Ratios == {Norm(n, d) : n \in -1..MaxRatio, d \in 1..MaxRatio}
Coords == {Rat(n) : n \in -MaxCoord..MaxCoord}

CanCall(feeders) ==
  /\ c_outcome # "panicked"
  /\ \/ c_ops = <<>>
     \/ Len(c_ops) = 1 /\ c_ops[1] \in feeders

Operand == IF c_ops = <<>> THEN c_v0 ELSE c_out

Return(op, result) ==
  /\ c_ops' = Append(c_ops, op)
  /\ c_out' = result
  /\ c_outcome' = "returned"
  /\ UNCHANGED <<tickVars, debug_assertions, c_win, c_ar, c_v0>>

Panic(op) ==
  /\ c_ops' = Append(c_ops, op)
  /\ c_outcome' = "panicked"
  /\ UNCHANGED <<tickVars, debug_assertions, c_win, c_ar, c_v0, c_out>>

CallScale == CanCall({}) /\ Return("scale", scale(c_win, c_ar))

CallScreenWidth ==
  CanCall({}) /\ Return("screen_width", Vec2(WorldUnit_screen_width(c_ar), Zero))

CallScreenHeight ==
  CanCall({}) /\ Return("screen_height", Vec2(Zero, WorldUnit_screen_height(c_ar)))

CallNormalizedX ==
  /\ CanCall({})
  /\ IF debug_assertions /\ ~normalized_in_range(Operand.x)
     THEN Panic("normalized_x")
     ELSE Return("normalized_x", Vec2(normalized_x(Operand.x, c_ar), Zero))

CallNormalizedY ==
  /\ CanCall({})
  /\ IF debug_assertions /\ ~normalized_in_range(Operand.y)
     THEN Panic("normalized_y")
     ELSE Return("normalized_y", Vec2(Zero, normalized_y(Operand.y, c_ar)))

CallToX == CanCall(ToWorldOps) /\ Return("to_x", Vec2(to_x(Operand.x, c_win, c_ar), Zero))

CallToY == CanCall(ToWorldOps) /\ Return("to_y", Vec2(Zero, to_y(Operand.y, c_win, c_ar)))

CallFromX ==
  CanCall(ToPixelOps) /\ Return("from_x", Vec2(from_x(Operand.x, c_win, c_ar), Zero))

CallFromY ==
  CanCall(ToPixelOps) /\ Return("from_y", Vec2(Zero, from_y(Operand.y, c_win, c_ar)))

CallToAbsolute ==
  CanCall(ToWorldOps) /\ Return("to_absolute", to_absolute(Operand, c_win, c_ar))

CallFromScreenPos ==
  CanCall(ToPixelOps) /\ Return("from_screen_pos", from_screen_pos(Operand, c_win, c_ar))

----------------------------------------------------------------------------
(* world_init.rs, mouse.rs: the plugins' systems *)

None == <<>>
Some(v) == <<v>>

MouseButtons == {"Left", "Right"}

\* WorldInitPlugin { screen_width, screen_height }: the default and a portrait one
PluginConfigs == {<<1280, 720>>, <<600, 800>>}
\* sizes a WindowResized event can carry
WindowSizes == {<<800, 600>>, <<1024, 768>>}
\* Window::cursor_position when the cursor is inside the window
CursorPositions == {Vec2(Rat(400), Rat(300)), Vec2(Rat(100), Rat(200))}

WindowResized(size) == [width |-> Rat(size[1]), height |-> Rat(size[2])]

LeftClick(p) == [button |-> "Left", pos |-> p]
RightClick(p) == [button |-> "Right", pos |-> p]

\* ButtonInput::just_pressed as handle_input consults it
ButtonClicked_while_down(input, b) == b \in input.pressed
ButtonClicked(input, b) == b \in input.just_pressed

\* MousePlugin::handle_input: the position it computes and the events it sends
handle_input_right_first(cursor_pos, wi, ar, input) ==
  IF cursor_pos = None THEN [pos |-> None, sent |-> <<>>]
  ELSE LET p == from_window_screen_pos(cursor_pos[1], wi, ar)
       IN [pos |-> Some(p),
           sent |-> (IF ButtonClicked(input, "Right") THEN <<RightClick(p)>> ELSE <<>>)
                    \o (IF ButtonClicked(input, "Left") THEN <<LeftClick(p)>> ELSE <<>>)]
handle_input_no_cursor_check(cursor_pos, wi, ar, input) ==
  LET c == IF cursor_pos = None THEN Vec2(Zero, Zero) ELSE cursor_pos[1]
      p == from_window_screen_pos(c, wi, ar)
  IN [pos |-> Some(p),
      sent |-> (IF ButtonClicked(input, "Left") THEN <<LeftClick(p)>> ELSE <<>>)
               \o (IF ButtonClicked(input, "Right") THEN <<RightClick(p)>> ELSE <<>>)]
handle_input(cursor_pos, wi, ar, input) ==
  IF cursor_pos = None THEN [pos |-> None, sent |-> <<>>]
  ELSE LET p == from_window_screen_pos(cursor_pos[1], wi, ar)
       IN [pos |-> Some(p),
           sent |-> (IF ButtonClicked(input, "Left") THEN <<LeftClick(p)>> ELSE <<>>)
                    \o (IF ButtonClicked(input, "Right") THEN <<RightClick(p)>> ELSE <<>>)]

\* WorldInitPlugin::resize_listener: the loop over the unread events
resize_listener_mixes(events, wi) ==
  IF events = <<>> THEN wi
  ELSE [width |-> events[Len(events)].width, height |-> events[1].height]
RECURSIVE resize_listener(_, _)
resize_listener(events, wi) ==
  IF events = <<>> THEN wi
  ELSE resize_listener(Tail(events),
                       [wi EXCEPT !.width = Head(events).width,
                                  !.height = Head(events).height])

(* One frame: the host delivers the window events and the button state,    *)
(* then the Main schedule runs First, PreUpdate, Update in that order.     *)

HostInput ==
  /\ pc = "host"
  /\ \E n \in 0..MaxResizes : \E sizes \in [1..n -> WindowSizes] :
       resize_events' = [i \in 1..n |-> WindowResized(sizes[i])]
  /\ resize_read' = 0
  /\ cursor' \in {None} \cup {Some(c) : c \in CursorPositions}
  /\ \E held \in SUBSET buttons.pressed : \E newly \in SUBSET (MouseButtons \ held) :
       buttons' = [pressed |-> held \cup newly, just_pressed |-> newly]
  /\ pc' = "First"
  /\ UNCHANGED <<screen_width, screen_height, win_info, aspect_ratio,
                 mouse_events, prev_mouse_events, pos, convVars>>

\* add_event::<MouseEvent>(): the event buffers rotate at the start of a frame
EventUpdate ==
  /\ pc = "First"
  /\ prev_mouse_events' = mouse_events
  /\ mouse_events' = <<>>
  /\ pos' = None
  /\ pc' = "PreUpdate"
  /\ UNCHANGED <<screen_width, screen_height, win_info, aspect_ratio,
                 resize_events, resize_read, cursor, buttons, convVars>>

\* add_systems(PreUpdate, MousePlugin::handle_input)
HandleInput ==
  /\ pc = "PreUpdate"
  /\ LET r == handle_input(cursor, win_info, aspect_ratio, buttons)
     IN /\ pos' = r.pos
        /\ mouse_events' = mouse_events \o r.sent
  /\ pc' = "Update"
  /\ UNCHANGED <<screen_width, screen_height, win_info, aspect_ratio,
                 resize_events, resize_read, cursor, buttons, prev_mouse_events,
                 convVars>>

\* EventReader::read: the events past the reader's cursor
Unread(events, read) == SubSeq(events, read + 1, Len(events))

\* add_systems(Update, (.., Self::resize_listener))
ResizeListener_rederives_ratio ==
  /\ pc = "Update"
  /\ win_info' = resize_listener(Unread(resize_events, resize_read), win_info)
  /\ aspect_ratio' = Div(win_info'.height, win_info'.width)
  /\ resize_read' = Len(resize_events)
  /\ pc' = "host"
  /\ UNCHANGED <<screen_width, screen_height, resize_events, cursor, buttons,
                 mouse_events, prev_mouse_events, pos, convVars>>
ResizeListener ==
  /\ pc = "Update"
  /\ win_info' = resize_listener(Unread(resize_events, resize_read), win_info)
  /\ resize_read' = Len(resize_events)
  /\ pc' = "host"
  /\ UNCHANGED <<screen_width, screen_height, aspect_ratio, resize_events, cursor,
                 buttons, mouse_events, prev_mouse_events, pos, convVars>>

----------------------------------------------------------------------------
(* Specifications *)

\* WorldInitPlugin::build: the resources as inserted
InitResources ==
  /\ win_info = WinInfo_new(screen_width, screen_height)
  /\ aspect_ratio = AspectRatio_new(Div(screen_height, screen_width))

InitFrame ==
  /\ resize_events = <<>>
  /\ resize_read = 0
  /\ cursor = None
  /\ buttons = [pressed |-> {}, just_pressed |-> {}]
  /\ mouse_events = <<>>
  /\ prev_mouse_events = <<>>
  /\ pos = None
  /\ pc = "host"

InitNoCall ==
  /\ c_ops = <<>>
  /\ c_out = Vec2(Zero, Zero)
  /\ c_outcome = "none"

\* the plugins running frame after frame
Init ==
  /\ \E cfg \in PluginConfigs :
       /\ screen_width = Rat(cfg[1])
       /\ screen_height = Rat(cfg[2])
  /\ InitResources
  /\ InitFrame
  /\ debug_assertions = TRUE
  /\ c_win = WinInfo_new(One, One)
  /\ c_ar = One
  /\ c_v0 = Vec2(Zero, Zero)
  /\ InitNoCall

Next == HostInput \/ EventUpdate \/ HandleInput \/ ResizeListener

Spec == Init /\ [][Next]_vars

\* the conversion API called directly on arbitrary arguments
InitConv ==
  /\ screen_width = Rat(1280)
  /\ screen_height = Rat(720)
  /\ InitResources
  /\ InitFrame
  /\ debug_assertions \in BOOLEAN
  /\ \E w \in Dims : \E h \in Dims : c_win = WinInfo_new(w, h)
  /\ c_ar \in Ratios
  /\ \E x \in Coords : \E y \in Coords : c_v0 = Vec2(x, y)
  /\ InitNoCall

NextConv ==
  \/ CallScale \/ CallScreenWidth \/ CallScreenHeight
  \/ CallNormalizedX \/ CallNormalizedY
  \/ CallToX \/ CallToY \/ CallFromX \/ CallFromY
  \/ CallToAbsolute \/ CallFromScreenPos

SpecConv == InitConv /\ [][NextConv]_vars

----------------------------------------------------------------------------
(* Properties of the frame loop (Spec) *)

\* handle_input has run in the current frame
Mapped == pc = "Update"

Clicks(b) == {i \in 1..Len(mouse_events) : mouse_events[i].button = b}

\* C1: every click event of a tick carries the position converted with the
\* window size the tick ends with, all of the tick's resize notifications
\* having been applied before handle_input converted the cursor position.
C1_ClickUsesTickWindowSize ==
  pc = "host" /\ resize_read = Len(resize_events) /\ cursor # None =>
    \A i \in 1..Len(mouse_events) :
      mouse_events[i].pos = from_window_screen_pos(cursor[1], win_info, aspect_ratio)

\* C2: with a cursor position available, handle_input sends exactly one click
\* event for a button that is just-pressed this tick and none for any other
\* button; a button that is held down but not just-pressed sends none.
C2_EdgeTriggered ==
  Mapped /\ cursor # None =>
    \A b \in MouseButtons :
      /\ Cardinality(Clicks(b)) = (IF b \in buttons.just_pressed THEN 1 ELSE 0)
      /\ b \in buttons.pressed \ buttons.just_pressed => Clicks(b) = {}

\* a tick in which Left is still held from the tick before, whose click was sent then
C2_Witness ==
  /\ Mapped
  /\ cursor # None
  /\ "Left" \in buttons.pressed \ buttons.just_pressed
  /\ mouse_events = <<>>
  /\ \E i \in 1..Len(prev_mouse_events) : prev_mouse_events[i].button = "Left"

\* C3: when Left and Right are both just-pressed and a cursor position is
\* available, the tick's events are exactly LeftClick(p), RightClick(p) in
\* that order, p being the one conversion of the cursor position.
C3_LeftThenRight ==
  Mapped /\ cursor # None /\ buttons.just_pressed = MouseButtons =>
    /\ pos = Some(from_window_screen_pos(cursor[1], win_info, aspect_ratio))
    /\ mouse_events = <<LeftClick(pos[1]), RightClick(pos[1])>>

C3_Witness ==
  /\ Mapped
  /\ cursor # None
  /\ buttons.just_pressed = MouseButtons
  /\ Len(mouse_events) = 2

\* C4: in a tick without a cursor position handle_input sends no event and
\* converts nothing, whatever the just-pressed set is, and the frame goes on.
C4_NoCursorNoEvents ==
  pc \in {"Update", "host"} /\ cursor = None =>
    /\ mouse_events = <<>>
    /\ pos = None

C4_Witness ==
  /\ Mapped
  /\ cursor = None
  /\ buttons.just_pressed = MouseButtons
  /\ mouse_events = <<>>

\* C5: resize_listener leaves WinInfo equal to the last notification of the
\* tick, width and height both from that one notification, and leaves it
\* unchanged when the tick has no notification.
C5_LastResizeWins ==
  [][pc = "Update" /\ pc' = "host" =>
       win_info' = IF Unread(resize_events, resize_read) = <<>> THEN win_info
                   ELSE [width |-> resize_events[Len(resize_events)].width,
                         height |-> resize_events[Len(resize_events)].height]]_vars

\* two different notifications in one tick, both read
C5_Witness ==
  /\ pc = "host"
  /\ Len(resize_events) = 2
  /\ resize_read = 2
  /\ resize_events[1].width # resize_events[2].width
  /\ resize_events[1].height # resize_events[2].height
  /\ win_info = resize_events[2]

\* C9: the aspect ratio stays the configured height / width through every
\* frame, whatever is resized or clicked, so the window's own height / width
\* can come to differ from it.
C9_AspectRatioFixed ==
  aspect_ratio = Div(screen_height, screen_width)

C9_Witness ==
  /\ pc = "host"
  /\ resize_read > 0
  /\ Div(win_info.height, win_info.width) # aspect_ratio
  /\ mouse_events # <<>>

----------------------------------------------------------------------------
(* Properties of the conversion API (SpecConv) *)

ValidGeometry ==
  /\ Lt(Zero, c_win.width)
  /\ Lt(Zero, c_win.height)
  /\ Lt(Zero, c_ar)

\* C6: a conversion called with a window width or height <= 0 or an aspect
\* ratio <= 0 does not return a value: it is stopped by an assertion (in a
\* build with debug assertions).
C6_BadGeometryAborts ==
  /\ debug_assertions
  /\ c_ops # <<>>
  /\ c_ops[Len(c_ops)] \in ToPixelOps \cup ToWorldOps \cup {"scale"}
  /\ ~ValidGeometry
  => c_outcome = "panicked"

\* C7: for an aspect ratio r > 0 the larger of the units per screen width
\* and per screen height is exactly 50 and the smaller is at most 50.
C7_LargerSpanIsMax ==
  Lt(Zero, c_ar) =>
    /\ c_ops = <<"screen_width">> =>
         LET h == units_per_screen_height(c_ar)
         IN Max(c_out.x, h) = Rat(50) /\ Le(Min(c_out.x, h), Rat(50))
    /\ c_ops = <<"screen_height">> =>
         LET w == units_per_screen_width(c_ar)
         IN Max(w, c_out.y) = Rat(50) /\ Le(Min(w, c_out.y), Rat(50))

C7_Witness ==
  /\ c_ops = <<"screen_width">>
  /\ Lt(Zero, c_ar)
  /\ Lt(c_ar, One)
  /\ c_out.x = Rat(50)

====
